---- MODULE Spec2Model ----
(***************************************************************************)
(* Nettfiske (src/src/main.rs): the certificate-stream loop of main and    *)
(* the domain risk-scoring pipeline it drives (wildcard stripping,         *)
(* punycode decoding, public-suffix decomposition, keyword / edit-distance *)
(* / TLD-token / nesting heuristics, and the tiered reporter).             *)
(*                                                                         *)
(* A Rust String is modelled as a sequence of code points (naturals), so   *)
(* that slicing, substring search, replacement, case folding and punycode  *)
(* decoding are computed on characters, as the code computes them.         *)
(***************************************************************************)
EXTENDS Integers, Sequences, FiniteSets

(***************************************************************************)
(* String literals of the program, as code-point sequences.                *)
(***************************************************************************)
S_xn == <<120, 110, 45, 45>>                                    \* "xn--"
S_wild == <<42, 46>>                                            \* "*."
S_heartbeat == <<104, 101, 97, 114, 116, 98, 101, 97, 116>>     \* "heartbeat"
S_certificate_update ==
  <<99, 101, 114, 116, 105, 102, 105, 99, 97, 116, 101, 95, 117, 112, 100, 97, 116, 101>>
                                                                \* "certificate_update"
S_com == <<99, 111, 109>>                                       \* "com"
S_net == <<110, 101, 116>>                                      \* "net"
S_dnet == <<45, 110, 101, 116>>                                 \* "-net"
S_dcom == <<45, 99, 111, 109>>                                  \* "-com"
S_netd == <<110, 101, 116, 45>>                                 \* "net-"
S_comd == <<99, 111, 109, 45>>                                  \* "com-"
DOT == 46                                                       \* '.'
DELIMITER == 45                                                 \* '-'

(***************************************************************************)
(* std::str operations used by main.rs.                                    *)
(***************************************************************************)
\* s[from..], 1-based: the suffix of s that starts at index from
Drop(s, n) == SubSeq(s, n + 1, Len(s))

\* str::starts_with
StartsWith(s, p) == Len(p) <= Len(s) /\ SubSeq(s, 1, Len(p)) = p

\* str::contains: p occurs in s as a contiguous substring ("" is in every s)
Contains(s, p) ==
  \E i \in 0..(Len(s) - Len(p)) : SubSeq(s, i + 1, i + Len(p)) = p

\* str::matches(p).count(): non-overlapping occurrences, scanned left to right
RECURSIVE MatchesCount(_, _)
MatchesCount(s, p) ==
  IF Len(s) < Len(p) \/ p = <<>> THEN 0
  ELSE IF StartsWith(s, p) THEN 1 + MatchesCount(Drop(s, Len(p)), p)
  ELSE MatchesCount(Drop(s, 1), p)

\* str::replace(p, to): every non-overlapping occurrence of p, left to right
RECURSIVE Replace(_, _, _)
Replace(s, p, to) ==
  IF Len(s) < Len(p) \/ p = <<>> THEN s
  ELSE IF StartsWith(s, p) THEN to \o Replace(Drop(s, Len(p)), p, to)
  ELSE <<Head(s)>> \o Replace(Drop(s, 1), p, to)

\* str::split('.').collect(): always at least one piece; "" gives [""]
RECURSIVE SplitFrom(_, _, _)
SplitFrom(s, c, cur) ==
  IF s = <<>> THEN <<cur>>
  ELSE IF Head(s) = c THEN <<cur>> \o SplitFrom(Tail(s), c, <<>>)
  ELSE SplitFrom(Tail(s), c, Append(cur, Head(s)))

Split(s, c) == SplitFrom(s, c, <<>>)

\* [String]::join(".")
RECURSIVE Join(_, _)
Join(ws, c) ==
  IF ws = <<>> THEN <<>>
  ELSE IF Len(ws) = 1 THEN ws[1]
  ELSE ws[1] \o <<c>> \o Join(Tail(ws), c)

\* u8::to_ascii_lowercase, as str::eq_ignore_ascii_case applies it
ToAsciiLower(ch) == IF ch >= 65 /\ ch <= 90 THEN ch + 32 ELSE ch

EqIgnoreAsciiCase(a, b) ==
  /\ Len(a) = Len(b)
  /\ \A i \in 1..Len(a) : ToAsciiLower(a[i]) = ToAsciiLower(b[i])

Min2(a, b) == IF a < b THEN a ELSE b

(***************************************************************************)
(* strsim::damerau_levenshtein: the number of insertions, deletions,       *)
(* substitutions and transpositions of two adjacent characters that turn   *)
(* one word into the other (unrestricted Damerau-Levenshtein).  The table  *)
(* d is built row by row; rows[i + 1][j + 1] is d[i][j].                   *)
(***************************************************************************)
\* largest k <= upto with s[k] = ch, 0 when there is none
LastIndexOf(s, upto, ch) ==
  LET hits == {k \in 1..upto : s[k] = ch}
  IN IF hits = {} THEN 0 ELSE CHOOSE k \in hits : \A h \in hits : h <= k

DLCell(a, b, i, j, rows, row) ==
  LET cost == IF a[i] = b[j] THEN 0 ELSE 1
      sub == rows[i][j] + cost
      del == rows[i][j + 1] + 1
      ins == row[j] + 1
      k == LastIndexOf(a, i - 1, b[j])
      l == LastIndexOf(b, j - 1, a[i])
      best == Min2(sub, Min2(del, ins))
  IN IF k > 0 /\ l > 0
     THEN Min2(best, rows[k][l] + (i - k - 1) + 1 + (j - l - 1))
     ELSE best

RECURSIVE DLRow(_, _, _, _, _, _)
DLRow(a, b, i, j, rows, row) ==
  IF j > Len(b) THEN row
  ELSE DLRow(a, b, i, j + 1, rows, Append(row, DLCell(a, b, i, j, rows, row)))

RECURSIVE DLRows(_, _, _, _)
DLRows(a, b, i, rows) ==
  IF i > Len(a) THEN rows
  ELSE DLRows(a, b, i + 1, Append(rows, DLRow(a, b, i, 1, rows, <<i>>)))

damerau_levenshtein(a, b) ==
  LET rows == DLRows(a, b, 1, << [j \in 1..(Len(b) + 1) |-> j - 1] >>)
  IN rows[Len(a) + 1][Len(b) + 1]

(***************************************************************************)
(* idna::punycode::decode (RFC 3492), the decoder main.rs calls on every   *)
(* label that starts with "xn--".  A result is [ok |-> FALSE] (None) or    *)
(* [ok |-> TRUE, chars |-> <<code points>>] (Some).                        *)
(***************************************************************************)
BASE == 36
T_MIN == 1
T_MAX == 26
SKEW == 38
DAMP == 700
INITIAL_BIAS == 72
INITIAL_N == 128
\* The decoder's overflow guards compare against u32::MAX.  The guards are
\* stated against the largest integer TLC represents, 2^31 - 1: a label has to
\* carry a delta of seven or more base-36 digits to come near either limit.
IntLimit == 2147483647

None == [ok |-> FALSE]
Some(cs) == [ok |-> TRUE, chars |-> cs]

\* char::from_u32: a Unicode scalar value (no surrogate, at most U+10FFFF)
IsChar(cp) == cp <= 1114111 /\ ~(cp >= 55296 /\ cp <= 57343)

RECURSIVE AdaptLoop(_, _)
AdaptLoop(delta, k) ==
  IF delta > ((BASE - T_MIN) * T_MAX) \div 2
  THEN AdaptLoop(delta \div (BASE - T_MIN), k + BASE)
  ELSE k + (((BASE - T_MIN + 1) * delta) \div (delta + SKEW))

adapt(delta, num_points, first_time) ==
  LET d1 == delta \div (IF first_time THEN DAMP ELSE 2)
  IN AdaptLoop(d1 + d1 \div num_points, 0)

\* the value of one base-36 digit, -1 for a byte that is no digit
DecodeDigit(byte) ==
  IF byte >= 48 /\ byte <= 57 THEN byte - 48 + 26
  ELSE IF byte >= 65 /\ byte <= 90 THEN byte - 65
  ELSE IF byte >= 97 /\ byte <= 122 THEN byte - 97
  ELSE -1

\* the inner loop: one generalized variable-length integer, added to i
RECURSIVE DecodeDelta(_, _, _, _, _, _)
DecodeDelta(byte, rest, i, weight, k, bias) ==
  LET digit == DecodeDigit(byte)
      t == IF k <= bias THEN T_MIN
           ELSE IF k >= bias + T_MAX THEN T_MAX
           ELSE k - bias
  IN IF digit < 0 THEN [ok |-> FALSE]
     ELSE IF digit > (IntLimit - i) \div weight THEN [ok |-> FALSE]
     ELSE IF digit < t THEN [ok |-> TRUE, i |-> i + digit * weight, rest |-> rest]
     ELSE IF weight > IntLimit \div (BASE - t) THEN [ok |-> FALSE]
     ELSE IF rest = <<>> THEN [ok |-> FALSE]
     ELSE DecodeDelta(Head(rest), Tail(rest), i + digit * weight,
                      weight * (BASE - t), k + BASE, bias)

\* Vec::insert(at, c), at counted from 0
InsertAt(out, at, c) == SubSeq(out, 1, at) \o <<c>> \o SubSeq(out, at + 1, Len(out))

\* the outer loop: one code point per delta
RECURSIVE DecodeLoop(_, _, _, _, _)
DecodeLoop(input, output, code_point, bias, i) ==
  IF input = <<>> THEN Some(output)
  ELSE
    LET d == DecodeDelta(Head(input), Tail(input), i, 1, BASE, bias)
        n1 == Len(output) + 1
    IN IF ~d.ok THEN None
       ELSE IF d.i \div n1 > IntLimit - code_point THEN None
       ELSE IF ~IsChar(code_point + d.i \div n1) THEN None
       ELSE DecodeLoop(d.rest,
                       InsertAt(output, d.i % n1, code_point + d.i \div n1),
                       code_point + d.i \div n1,
                       adapt(d.i - i, n1, i = 0),
                       (d.i % n1) + 1)

\* the basic code points are those before the last delimiter, if any
decode(input) ==
  LET position == LastIndexOf(input, Len(input), DELIMITER) - 1
  IN IF position < 0 THEN DecodeLoop(input, <<>>, INITIAL_N, INITIAL_BIAS, 0)
     ELSE DecodeLoop(IF position > 0 THEN Drop(input, position + 1) ELSE input,
                     SubSeq(input, 1, position), INITIAL_N, INITIAL_BIAS, 0)


(***************************************************************************)
(* The helpers of main.rs.                                                 *)
(***************************************************************************)
deeply_nested(d) ==
  LET v == Split(d, DOT)
  IN IF Len(v) >= 3 THEN Len(v) * 3 ELSE 0

\* a variant that forgets the factor 10
domain_keywords_unscaled(name, key, weight) ==
  IF Contains(name, key) THEN weight ELSE 0

domain_keywords(name, key, weight) ==
  IF Contains(name, key) THEN 10 * weight ELSE 0

domain_keywords_exact_match(name, key, weight) ==
  IF EqIgnoreAsciiCase(name, key) THEN 10 * weight ELSE 0

\* a variant that also fires at distance 0
calc_string_edit_distance_le1(name, key) ==
  IF damerau_levenshtein(name, key) <= 1 THEN 40 ELSE 0

calc_string_edit_distance(name, key) ==
  IF damerau_levenshtein(name, key) = 1 THEN 40 ELSE 0

\* the labels of punycode(): decode(..).unwrap() panics on None, which is
\* [ok |-> FALSE] here
RECURSIVE PunycodeWords(_)
PunycodeWords(words) ==
  IF words = <<>> THEN [ok |-> TRUE, result |-> <<>>]
  ELSE
    LET word == Head(words)
        decoded == IF StartsWith(word, S_xn)
                   THEN decode(Replace(word, S_xn, <<>>))
                   ELSE Some(word)
        rest == PunycodeWords(Tail(words))
    IN IF ~decoded.ok THEN [ok |-> FALSE]
       ELSE IF ~rest.ok THEN [ok |-> FALSE]
       ELSE [ok |-> TRUE, result |-> <<decoded.chars>> \o rest.result]

punycode(d) ==
  LET r == PunycodeWords(Split(d, DOT))
  IN IF r.ok THEN [ok |-> TRUE, value |-> Join(r.result, DOT)] ELSE [ok |-> FALSE]

\* a variant that leaves the root in place
SubDomain_kept(d, root) == d

\* line 86: the root is removed from the domain with str::replace
SubDomain(d, root) == Replace(d, root, <<>>)

\* a variant without the starts_with guard of line 70
StripWildcard_unguarded(d) == Replace(d, S_wild, <<>>)

\* lines 70-72: the wildcard marker is removed with str::replace
StripWildcard(d) == IF StartsWith(d, S_wild) THEN Replace(d, S_wild, <<>>) ELSE d

\* one println! of print_domain: the annotation is present iff the original
\* domain holds "xn--"
print_domain(sc, colour, d, domain_original) ==
  [style |-> colour, domain |-> d, score |-> sc,
   punycode |-> IF MatchesCount(domain_original, S_xn) > 0
                THEN <<domain_original>> ELSE <<>>]

\* a variant whose thresholds are strict
report_strict(sc, d, domain_original) ==
  [console |->
     IF sc > 76 THEN <<print_domain(sc, "red", d, domain_original)>>
     ELSE IF sc > 68 THEN <<print_domain(sc, "magenta", d, domain_original)>>
     ELSE IF sc > 56 THEN <<print_domain(sc, "yellow", d, domain_original)>>
     ELSE <<>>,
   log |->
     IF sc > 56
     THEN IF MatchesCount(domain_original, S_xn) > 0
          THEN << [domain |-> d, punycode |-> <<domain_original>>] >>
          ELSE << [domain |-> d, punycode |-> <<>>] >>
     ELSE <<>>]

\* report(): the lines it prints and the entries it logs
report(sc, d, domain_original) ==
  [console |->
     IF sc >= 76 THEN <<print_domain(sc, "red", d, domain_original)>>
     ELSE IF sc >= 68 THEN <<print_domain(sc, "magenta", d, domain_original)>>
     ELSE IF sc >= 56 THEN <<print_domain(sc, "yellow", d, domain_original)>>
     ELSE <<>>,
   log |->
     IF sc >= 56
     THEN IF MatchesCount(domain_original, S_xn) > 0
          THEN << [domain |-> d, punycode |-> <<domain_original>>] >>
          ELSE << [domain |-> d, punycode |-> <<>>] >>
     ELSE <<>>]

\* lines 91-95: what one keyword adds to the score
KeywordStep(domain_name0, sub_domain_name0, key) ==
  domain_keywords(domain_name0, key, 4)
  + calc_string_edit_distance(domain_name0, key)
  + domain_keywords(sub_domain_name0, key, 6)
  + calc_string_edit_distance(sub_domain_name0, key)

\* lines 89-96: what the loop over the keywords adds to the score
RECURSIVE KeywordLoop(_, _, _)
KeywordLoop(domain_name0, sub_domain_name0, keys) ==
  IF keys = {} THEN 0
  ELSE LET key == CHOOSE k \in keys : TRUE
       IN KeywordStep(domain_name0, sub_domain_name0, key)
          + KeywordLoop(domain_name0, sub_domain_name0, keys \ {key})

\* line 99
tldl == <<S_com, S_net, S_dnet, S_dcom, S_netd, S_comd>>

\* lines 100-102: what the loop over tldl adds to the score
RECURSIVE TldLoop(_, _)
TldLoop(sub_domain_name0, i) ==
  IF i > Len(tldl) THEN 0
  ELSE domain_keywords_exact_match(sub_domain_name0, tldl[i], 8)
       + TldLoop(sub_domain_name0, i + 1)

(***************************************************************************)
(* The inputs: what the transport can deliver and what util::KEYWORDS can  *)
(* hold.  A domain is a list of labels from LabelPool, with or without a   *)
(* leading "*.", or one of ExtraDomains.                                   *)
(***************************************************************************)
MaxLabels == 3
MaxDomains == 2

L_paypal == <<112, 97, 121, 112, 97, 108>>                          \* "paypal"
L_paypa1 == <<112, 97, 121, 112, 97, 49>>                           \* "paypa1"
L_COM == <<67, 79, 77>>                                             \* "COM"
L_primer == <<120, 110, 45, 45, 101, 49, 97, 102, 109, 107, 102, 100>>
                                                                    \* "xn--e1afmkfd"
L_truncated == <<120, 110, 45, 45, 57>>                             \* "xn--9"
L_star == <<42>>                                                    \* "*"
L_nested == <<120, 110, 45, 45, 120, 120, 110, 45, 45, 110, 45, 45, 45>>
                                                                    \* "xn--xxn--n---"
L_secure == <<115, 101, 99, 117, 114, 101, 45, 112, 97, 121, 112, 97, 108, 45,
              108, 111, 103, 105, 110>>                             \* "secure-paypal-login"
K_c == <<99>>                                                       \* "c"

LabelPool == {L_paypal, L_paypa1, S_com, L_COM, L_primer, L_truncated, L_star}

LabelDomains ==
  {Join(ls, DOT) : ls \in UNION {[1..n -> LabelPool] : n \in 1..MaxLabels}}

ExtraDomains ==
  { Join(<<L_secure, S_com>>, DOT),            \* "secure-paypal-login.com"
    Join(<<L_nested, S_com>>, DOT),            \* "xn--xxn--n---.com"
    Join(<<<<42, 42>>, <<>>, S_com>>, DOT),    \* "**..com"
    Join(<<<<120, 42>>, <<110, 45, 45>>, S_com>>, DOT),    \* "x*.n--.com"
    \* seven labels "xn--": 7 * 5 + 7 * 3 = 56
    Join([i \in 1..7 |-> S_xn], DOT),
    \* four labels "xn--xn--" and two "xn--": 10 * 5 + 6 * 3 = 68
    Join([i \in 1..6 |-> IF i <= 4 THEN S_xn \o S_xn ELSE S_xn], DOT),
    \* four labels "xn--xn--" and three "xn--": 11 * 5 + 7 * 3 = 76
    Join([i \in 1..7 |-> IF i <= 4 THEN S_xn \o S_xn ELSE S_xn], DOT) }

BigPool ==
  LET plain == LabelDomains \cup ExtraDomains
  IN plain \cup {S_wild \o d : d \in plain}

SmallPool ==
  { Join(<<L_COM, L_paypa1, S_com>>, DOT),     \* "COM.paypa1.com"
    S_wild \o Join(<<L_primer, S_com>>, DOT),  \* "*.xn--e1afmkfd.com"
    Join(<<L_truncated, S_com>>, DOT) }        \* "xn--9.com"

SmallLists == UNION {[1..n -> SmallPool] : n \in 0..MaxDomains}

DomainLists == SmallLists \cup {<<d>> : d \in BigPool}

KeywordPool == {L_paypal, S_com, K_c}

MessageTypes ==
  { S_heartbeat, S_certificate_update, S_heartbeat \o S_certificate_update,
    <<115, 117, 98, 115, 99, 114, 105, 98, 101>> }    \* "subscribe"

\* A text message of the transport.  deserializes says whether
\* from_str::<CertString> accepts it: it does not when the text is no JSON or
\* lacks message_type or data.leaf_cert.all_domains.
Payloads ==
  {[deserializes |-> TRUE, message_type |-> S_certificate_update, all_domains |-> ds]
     : ds \in DomainLists}
  \cup
  {[deserializes |-> TRUE, message_type |-> mt, all_domains |-> ds]
     : mt \in MessageTypes, ds \in SmallLists}
  \cup
  {[deserializes |-> FALSE, message_type |-> mt, all_domains |-> <<>>]
     : mt \in MessageTypes \cup {<<>>}}

NoMessage == [deserializes |-> TRUE, message_type |-> <<>>, all_domains |-> <<>>]

(***************************************************************************)
(* The state of main().                                                    *)
(*   pc              where the loop of lines 61-111 stands                 *)
(*   keywords        the keys of util::KEYWORDS (line 55)                  *)
(*   msg             the payload of this iteration (`msg`, `cert`)         *)
(*   all_domains     what the for loop of line 68 has still to visit       *)
(*   raw             the domain as the iterator yielded it                 *)
(*   domain          `domain`, after lines 70-72                           *)
(*   domain_str      `domain_str` (line 76)                                *)
(*   score           `score`                                               *)
(*   registrable     domain.root() of line 81, <<>> or <<root>>            *)
(*   domain_name, sub_domain_name   the vectors of lines 83 and 87         *)
(*   console, logfile   the lines printed and the entries logged in this    *)
(*                   iteration of the loop of line 61                      *)
(*   reports         the calls of report() in this iteration               *)
(***************************************************************************)
VARIABLES pc, keywords, msg, all_domains, raw, domain, domain_str, score,
          registrable, domain_name, sub_domain_name, console, logfile, reports

vars == <<pc, keywords, msg, all_domains, raw, domain, domain_str, score,
          registrable, domain_name, sub_domain_name, console, logfile, reports>>

perDomain == <<raw, domain, domain_str, score, registrable, domain_name, sub_domain_name>>

output == <<console, logfile, reports>>

ClearDomain ==
  /\ raw' = <<>>
  /\ domain' = <<>>
  /\ domain_str' = <<>>
  /\ score' = 0
  /\ registrable' = <<>>
  /\ domain_name' = <<>>
  /\ sub_domain_name' = <<>>

Init ==
  /\ pc = "read"
  /\ keywords \in SUBSET KeywordPool
  /\ msg = NoMessage
  /\ all_domains = <<>>
  /\ raw = <<>>
  /\ domain = <<>>
  /\ domain_str = <<>>
  /\ score = 0
  /\ registrable = <<>>
  /\ domain_name = <<>>
  /\ sub_domain_name = <<>>
  /\ console = <<>>
  /\ logfile = <<>>
  /\ reports = <<>>

\* line 62: read_message() or into_text() returns Err and unwrap() panics
ReadFails ==
  /\ pc = "read"
  /\ pc' = "panicked"
  /\ UNCHANGED <<keywords, msg, all_domains, perDomain, output>>

\* line 63: from_str() returns Err and unwrap() panics
ReadMalformed ==
  /\ pc = "read"
  /\ \E p \in Payloads :
       /\ ~p.deserializes
       /\ msg' = p
  /\ pc' = "panicked"
  /\ UNCHANGED <<keywords, all_domains, perDomain, output>>

\* lines 62-63: a payload is read and deserialized into `cert`
Read ==
  /\ pc = "read"
  /\ \E p \in Payloads :
       /\ p.deserializes
       /\ msg' = p
  /\ pc' = "classify"
  /\ UNCHANGED <<keywords, all_domains, perDomain, output>>

\* the end of one iteration of the loop of line 61: `cert` is dropped, and the
\* window of output starts anew
NextIteration ==
  /\ pc' = "read"
  /\ msg' = NoMessage
  /\ console' = <<>>
  /\ logfile' = <<>>
  /\ reports' = <<>>

\* lines 65-66
Heartbeat ==
  /\ pc = "classify"
  /\ Contains(msg.message_type, S_heartbeat)
  /\ NextIteration
  /\ UNCHANGED <<keywords, all_domains, perDomain>>

\* lines 67-68: the for loop is entered
CertificateUpdate ==
  /\ pc = "classify"
  /\ ~Contains(msg.message_type, S_heartbeat)
  /\ Contains(msg.message_type, S_certificate_update)
  /\ all_domains' = msg.all_domains
  /\ pc' = "for"
  /\ UNCHANGED <<keywords, msg, perDomain, output>>

\* lines 65-67, 110: neither branch is taken
OtherMessage ==
  /\ pc = "classify"
  /\ ~Contains(msg.message_type, S_heartbeat)
  /\ ~Contains(msg.message_type, S_certificate_update)
  /\ NextIteration
  /\ UNCHANGED <<keywords, all_domains, perDomain>>

\* line 68, the iterator is exhausted: on to the next iteration
ForDone ==
  /\ pc = "for"
  /\ all_domains = <<>>
  /\ NextIteration
  /\ UNCHANGED <<keywords, all_domains, perDomain>>

\* lines 68-72: the next domain, its wildcard marker removed
ForNext ==
  /\ pc = "for"
  /\ all_domains # <<>>
  /\ raw' = Head(all_domains)
  /\ all_domains' = Tail(all_domains)
  /\ domain' = StripWildcard(Head(all_domains))
  /\ pc' = "punycode"
  /\ UNCHANGED <<keywords, msg, domain_str, score, registrable, domain_name,
                 sub_domain_name, output>>

\* lines 76-77
Punycode ==
  /\ pc = "punycode"
  /\ punycode(domain).ok
  /\ domain_str' = punycode(domain).value
  /\ score' = MatchesCount(domain, S_xn) * 5
  /\ pc' = "parse"
  /\ UNCHANGED <<keywords, msg, all_domains, raw, domain, registrable, domain_name,
                 sub_domain_name, output>>

\* line 76 by way of line 156: decode() returns None and unwrap() panics
PunycodePanics ==
  /\ pc = "punycode"
  /\ ~punycode(domain).ok
  /\ pc' = "panicked"
  /\ UNCHANGED <<keywords, msg, all_domains, perDomain, output>>

\* what list.parse_domain(&domain_str) and root() can answer: Err, a domain
\* without a root, or a root made of the last k >= 2 labels
Roots(d) ==
  LET ls == Split(d, DOT)
  IN {Join(SubSeq(ls, Len(ls) - k + 1, Len(ls)), DOT) : k \in 2..Len(ls)}

\* lines 79-87, the resolver gives a root
ParseRoot ==
  /\ pc = "parse"
  /\ \E root \in Roots(domain_str) :
       /\ registrable' = <<root>>
       /\ domain_name' = Split(root, DOT)
       /\ sub_domain_name' = Split(SubDomain(domain_str, root), DOT)
  /\ pc' = "keywords"
  /\ UNCHANGED <<keywords, msg, all_domains, raw, domain, domain_str, score, output>>

\* lines 79 and 81, parse_domain is Err or root() is None: on to line 106
ParseNoRoot ==
  /\ pc = "parse"
  /\ pc' = "nested"
  /\ UNCHANGED <<keywords, msg, all_domains, perDomain, output>>

\* lines 89-96
Keywords ==
  /\ pc = "keywords"
  /\ score' = score + KeywordLoop(domain_name[1], sub_domain_name[1], keywords)
  /\ pc' = "tld"
  /\ UNCHANGED <<keywords, msg, all_domains, raw, domain, domain_str, registrable,
                 domain_name, sub_domain_name, output>>

\* lines 99-102
Tld ==
  /\ pc = "tld"
  /\ score' = score + TldLoop(sub_domain_name[1], 1)
  /\ pc' = "nested"
  /\ UNCHANGED <<keywords, msg, all_domains, raw, domain, domain_str, registrable,
                 domain_name, sub_domain_name, output>>

\* lines 106-108
NestedAndReport ==
  /\ pc = "nested"
  /\ LET total == score + deeply_nested(domain_str)
         out == report(total, domain_str, domain)
     IN /\ console' = console \o out.console
        /\ logfile' = logfile \o out.log
        /\ reports' = Append(reports,
                             [raw |-> raw, domain_original |-> domain,
                              domain |-> domain_str, score |-> total,
                              root |-> registrable])
  /\ ClearDomain
  /\ pc' = "for"
  /\ UNCHANGED <<keywords, msg, all_domains>>

Next ==
  \/ ReadFails
  \/ ReadMalformed
  \/ Read
  \/ Heartbeat
  \/ CertificateUpdate
  \/ OtherMessage
  \/ ForDone
  \/ ForNext
  \/ Punycode
  \/ PunycodePanics
  \/ ParseRoot
  \/ ParseNoRoot
  \/ Keywords
  \/ Tld
  \/ NestedAndReport

Spec == Init /\ [][Next]_vars


(***************************************************************************)
(* The properties.                                                         *)
(***************************************************************************)
Card(S) == Cardinality(S)

\* the domains of the calls of report(), as the iterator yielded them
RawOf(rs) == [i \in 1..Len(rs) |-> rs[i].raw]

IsHeartbeat(p) == Contains(p.message_type, S_heartbeat)

IsCertificateUpdate(p) ==
  ~Contains(p.message_type, S_heartbeat) /\ Contains(p.message_type, S_certificate_update)

\* The score as the sum of its seven terms.  original is the domain the
\* scoring works on as the raw one (`domain` at line 77, domain_original in
\* report), normalized is domain_str, root is <<>> or <<the registrable root>>.
ExpectedScore(original, normalized, root, keys) ==
  LET labels == Split(normalized, DOT)
      nesting == IF Len(labels) >= 3 THEN 3 * Len(labels) ELSE 0
      puny == 5 * MatchesCount(original, S_xn)
  IN IF root = <<>> THEN puny + nesting
     ELSE
       LET r0 == Split(root[1], DOT)[1]
           s0 == Split(Replace(normalized, root[1], <<>>), DOT)[1]
       IN puny
          + 40 * Card({k \in keys : Contains(r0, k)})
          + 40 * Card({k \in keys : damerau_levenshtein(r0, k) = 1})
          + 60 * Card({k \in keys : Contains(s0, k)})
          + 40 * Card({k \in keys : damerau_levenshtein(s0, k) = 1})
          + 80 * Card({i \in 1..Len(tldl) : EqIgnoreAsciiCase(tldl[i], s0)})
          + nesting

Alerting == SelectSeq(reports, LAMBDA r : r.score >= 56)

Annotation(original) == IF Contains(original, S_xn) THEN <<original>> ELSE <<>>

\* C2: report() prints at most one alert per call, "high" (red) iff
\* score >= 76, "medium" (magenta) iff 68 <= score < 76, "low-suspicious"
\* (yellow) iff 56 <= score < 68, none iff score < 56; and it logs exactly one
\* entry iff score >= 56, which carries the raw punycode form iff the raw
\* domain holds "xn--".
C2_TiersAndLog ==
  /\ Len(console) = Len(Alerting)
  /\ Len(logfile) = Len(Alerting)
  /\ \A j \in 1..Len(Alerting) :
       /\ console[j].domain = Alerting[j].domain
       /\ console[j].score = Alerting[j].score
       /\ console[j].style = "red" <=> Alerting[j].score >= 76
       /\ console[j].style = "magenta" <=>
            (Alerting[j].score >= 68 /\ Alerting[j].score < 76)
       /\ console[j].style = "yellow" <=>
            (Alerting[j].score >= 56 /\ Alerting[j].score < 68)
       /\ console[j].punycode = Annotation(Alerting[j].domain_original)
       /\ logfile[j].domain = Alerting[j].domain
       /\ logfile[j].punycode = Annotation(Alerting[j].domain_original)

\* a score of exactly 68 on a punycode domain: a "medium" alert and a log
\* entry with the annotation
C2_Witness ==
  /\ Len(reports) = 1
  /\ reports[1].score = 68
  /\ Len(console) = 1
  /\ console[1].style = "magenta"
  /\ Len(logfile) = 1
  /\ logfile[1].punycode = <<reports[1].domain_original>>


\* C3: a message whose message_type holds "heartbeat" leads to no scoring and
\* no output; one whose message_type holds "certificate_update" (and not
\* "heartbeat") has every domain of its list scored; any other leads to no
\* scoring and no output; and in all three cases the loop goes on to the next
\* read (handling a deserialized message never ends the process).
C3_MessagesClassified ==
  (msg.deserializes /\ msg # NoMessage) =>
    /\ pc # "panicked"
    /\ ~IsCertificateUpdate(msg) =>
         /\ pc = "classify"
         /\ reports = <<>>
         /\ console = <<>>
         /\ logfile = <<>>
    /\ (IsCertificateUpdate(msg) /\ pc = "for" /\ all_domains = <<>>) =>
         RawOf(reports) = msg.all_domains

\* C5: a payload that from_str() rejects is skipped: no domain is scored and
\* the process does not terminate, so that later messages are still read.
C5_MalformedPayloadSkipped ==
  ~msg.deserializes =>
    /\ pc # "panicked"
    /\ reports = <<>>

\* punycode() as C6 describes it: a label that fails to decode stays as it is
RECURSIVE LenientWords(_)
LenientWords(words) ==
  IF words = <<>> THEN <<>>
  ELSE LET word == Head(words)
           decoded == IF StartsWith(word, S_xn)
                      THEN decode(Replace(word, S_xn, <<>>))
                      ELSE Some(word)
       IN <<IF decoded.ok THEN decoded.chars ELSE word>> \o LenientWords(Tail(words))

LenientPunycode(d) == Join(LenientWords(Split(d, DOT)), DOT)

\* C6: when a label that starts with "xn--" fails to decode, the label stays
\* unchanged in the normalized domain, the domain is scored and reported, and
\* the stream is not aborted.
C6_DecodeFailureRecovered ==
  (pc \notin {"read", "classify", "for"} /\ ~punycode(domain).ok) =>
    /\ pc # "panicked"
    /\ pc # "punycode" => domain_str = LenientPunycode(domain)

\* the domains of this message that the loop has taken so far
Taken ==
  IF pc \in {"punycode", "parse", "keywords", "tld", "nested"}
  THEN Append(RawOf(reports), raw)
  ELSE RawOf(reports)

\* C7: the domains of a certificate update are processed one at a time in
\* list order; report() is called exactly once per domain (with or without a
\* root), with the score that holds every contribution; and the loop leaves
\* the message (for the next read, or for good) only with every domain
\* reported.
C7_EveryDomainReportedOnceInOrder ==
  (msg.deserializes /\ IsCertificateUpdate(msg) /\ pc # "classify") =>
    /\ Taken \o all_domains = msg.all_domains
    /\ \A i \in 1..Len(reports) :
         reports[i].score =
           ExpectedScore(reports[i].domain_original, reports[i].domain,
                         reports[i].root, keywords)
    /\ (pc = "panicked" \/ (pc = "for" /\ all_domains = <<>>)) =>
         RawOf(reports) = msg.all_domains

\* C8: a raw domain that starts with "*." loses exactly that two-character
\* prefix, once, and nothing else; any other raw domain is left unchanged.
C8_WildcardPrefixStrippedOnce ==
  pc = "punycode" =>
    domain = (IF StartsWith(raw, S_wild) THEN Drop(raw, 2) ELSE raw)

\* normalization: wildcard stripping, then per-label punycode decoding
Normalize(d) == punycode(StripWildcard(d))

HasPunycodeLabel(d) ==
  \E i \in 1..Len(Split(d, DOT)) : StartsWith(Split(d, DOT)[i], S_xn)

\* C9 as stated: normalizing the normalized domain changes nothing; a domain
\* with no "xn--" label and no leading "*." is returned unchanged; and the
\* output has as many labels as the wildcard-stripped input.
C9_NormalizationIdempotent ==
  pc = "parse" =>
    /\ Normalize(domain_str).ok
    /\ Normalize(domain_str).value = domain_str
    /\ (~HasPunycodeLabel(raw) /\ ~StartsWith(raw, S_wild)) => domain_str = raw
    /\ Len(Split(domain_str, DOT)) = Len(Split(domain, DOT))

\* C9 as amended: normalization is idempotent on every raw domain whose
\* normalized form neither starts with "*." nor has a label that starts with
\* "xn--"; a domain with no "xn--" label and no leading "*." is returned
\* unchanged; and the output has as many labels as the domain the code hands
\* to punycode().
C9_IdempotentOnCleanOutput ==
  pc = "parse" =>
    /\ (~HasPunycodeLabel(domain_str) /\ ~StartsWith(domain_str, S_wild)) =>
         /\ Normalize(domain_str).ok
         /\ Normalize(domain_str).value = domain_str
    /\ (~HasPunycodeLabel(raw) /\ ~StartsWith(raw, S_wild)) => domain_str = raw
    /\ Len(Split(domain_str, DOT)) = Len(Split(domain, DOT))

\* "*.xn--e1afmkfd.com" has been normalized: the marker is gone, the label
\* is decoded, and the result is clean
C9_Witness ==
  /\ pc = "parse"
  /\ raw = S_wild \o Join(<<L_primer, S_com>>, DOT)
  /\ domain_str = Join(<<<<1087, 1088, 1080, 1084, 1077, 1088>>, S_com>>, DOT)
  /\ ~HasPunycodeLabel(domain_str)

\* what the punycode term and the two root-label terms add up to
RootOnlyScore ==
  5 * MatchesCount(domain, S_xn)
  + 40 * Card({k \in keywords : Contains(domain_name[1], k)})
  + 40 * Card({k \in keywords : damerau_levenshtein(domain_name[1], k) = 1})

\* C10 as stated: when the root is the whole normalized domain, the three
\* subdomain heuristics add nothing, whatever the non-empty keywords are: at
\* line 106 the score is the punycode term plus the root-label terms.
C10_EmptySubdomainAddsNothing ==
  (pc = "nested" /\ registrable = <<domain_str>> /\ <<>> \notin keywords) =>
    score = RootOnlyScore

\* C10 as amended: the same for keywords of at least two characters (a
\* keyword of one character is at distance 1 from the empty label).
C10_EmptySubdomainAddsNothingForLongKeywords ==
  (pc = "nested" /\ registrable = <<domain_str>>
     /\ \A k \in keywords : Len(k) >= 2) =>
    score = RootOnlyScore

\* "paypa1.com" with itself as root under {"paypal", "com"}: 40 from the
\* root's fuzzy match, nothing from the empty subdomain
C10_Witness ==
  /\ pc = "nested"
  /\ domain_str = Join(<<L_paypa1, S_com>>, DOT)
  /\ registrable = <<domain_str>>
  /\ sub_domain_name = << <<>> >>
  /\ keywords = {L_paypal, S_com}
  /\ score = 40

D_secure == Join(<<L_secure, S_com>>, DOT)

\* C4 as stated: "secure-paypal-login.com" with itself as root and "paypal"
\* among the keywords scores at least 56, so that an alert is printed and an
\* entry logged.
C4_ScenarioAlerts ==
  \A i \in 1..Len(reports) :
    (reports[i].raw = D_secure /\ reports[i].root = <<D_secure>>
       /\ L_paypal \in keywords) =>
      /\ reports[i].score >= 56
      /\ console # <<>>
      /\ logfile # <<>>

\* C4 as amended: the score is at least 40, the root-label containment of
\* "paypal"; it is exactly 40 when "paypal" is the only keyword, and then no
\* alert is printed and nothing is logged; an alert and a log entry appear
\* exactly when the other keywords lift the score to 56 or more.
C4_ScenarioScoresForty ==
  \A i \in 1..Len(reports) :
    (reports[i].raw = D_secure /\ reports[i].root = <<D_secure>>
       /\ L_paypal \in keywords) =>
      /\ reports[i].score >= 40
      /\ keywords = {L_paypal} =>
           (reports[i].score = 40 /\ console = <<>> /\ logfile = <<>>)
      /\ reports[i].score >= 56 <=> (console # <<>> /\ logfile # <<>>)

C4_Witness ==
  /\ keywords = {L_paypal}
  /\ Len(reports) = 1
  /\ reports[1].raw = D_secure
  /\ reports[1].root = <<D_secure>>
  /\ reports[1].score = 40
  /\ console = <<>>


====
